---- MODULE Spec2Model ----
(***************************************************************************)
(* Authors / magazines / articles data-access layer (lib/author.py,        *)
(* lib/magazine.py, lib/article.py) over the SQLite store opened by        *)
(* lib/database_utils.py.                                                  *)
(*                                                                         *)
(* The store is three tables with AUTOINCREMENT keys, NOT NULL / UNIQUE    *)
(* constraints and enforced foreign keys with ON DELETE CASCADE.  The      *)
(* connection provider has two modes: "test" (one shared in-memory         *)
(* database, which SQLite destroys when its last connection is closed) and *)
(* "normal" (a fresh handle on the persistent file per call).              *)
(***************************************************************************)
EXTENDS Integers, Sequences, FiniteSets, TLC

(* ---------------------------- bounds ---------------------------------- *)
MaxId == 1          \* largest id a caller passes to find_by_id or DELETE, less one
MaxArticles == 3    \* cap on the articles AUTOINCREMENT counter, relationship workload
MaxDrafts == 2      \* cap on the articles AUTOINCREMENT counter, lifecycle workload

AObjs == {1, 2}     \* in-memory Author objects
MObjs == {1, 2}     \* in-memory Magazine objects
RObjs == {1}        \* in-memory Article objects held by the caller

(* ---------------------------- values ---------------------------------- *)
None == 0                       \* Python None for ids and object references
NoneStr == <<"None">>           \* Python None where a string is expected
NotStr == <<"123">>             \* a value that is not a str (e.g. the int 123)
\* strings are sequences of characters
Modes == {"test", "normal"}

IsStr(v) == v \notin {NoneStr, NotStr}

RECURSIVE LStrip(_)
LStrip(s) == IF s # << >> /\ Head(s) = " " THEN LStrip(Tail(s)) ELSE s

RECURSIVE RStrip(_)
RStrip(s) == IF s # << >> /\ s[Len(s)] = " " THEN RStrip(SubSeq(s, 1, Len(s) - 1)) ELSE s

\* str.strip()
Strip(s) == RStrip(LStrip(s))

(* ---------------------------- state ----------------------------------- *)
VARIABLES
    mode,        \* "pytest" in sys.modules ? "test" : "normal"
    shared,      \* _shared_connection: "none" | "open" | "closed"
    authors,     \* rows of table authors:   [id, name, email]
    magazines,   \* rows of table magazines: [id, title, category]
    articles,    \* rows of table articles:  [id, title, content, author_id, magazine_id]
    seq,         \* sqlite_sequence: largest id ever assigned per table
    locked,      \* normal mode: a leaked handle still holds the write lock
    aobj,        \* Author objects
    mobj,        \* Magazine objects
    robj,        \* Article objects
    ever,        \* history: ids that some row of each table has carried
    ret          \* history: the last call and its outcome

vars == <<mode, shared, authors, magazines, articles, seq, locked, aobj, mobj, robj, ever, ret>>
store == <<authors, magazines, articles, seq>>
objs == <<aobj, mobj, robj>>

Tables == {"authors", "magazines", "articles"}
NoSeq == [t \in Tables |-> 0]
NoEver == [t \in Tables |-> {}]

NoAuthor == [live |-> FALSE, id |-> None, name |-> NoneStr, email |-> "none"]
NoMagazine == [live |-> FALSE, id |-> None, name |-> NoneStr, category |-> NoneStr]
NoArticle == [live |-> FALSE, id |-> None, title |-> NoneStr, content |-> "", author |-> None, magazine |-> None]

Ids(T) == {r.id : r \in T}

Result(op, obj, arg, kind, val) == [op |-> op, obj |-> obj, arg |-> arg, kind |-> kind, val |-> val]

Init ==
    /\ mode \in Modes
    /\ shared = "none"
    /\ authors = {} /\ magazines = {} /\ articles = {}
    /\ seq = NoSeq
    /\ locked = FALSE
    /\ aobj = [o \in AObjs |-> NoAuthor]
    /\ mobj = [o \in MObjs |-> NoMagazine]
    /\ robj = [o \in RObjs |-> NoArticle]
    /\ ever = NoEver
    /\ ret = Result("init", None, None, "ok", None)

(* ------------------------- SQL store ---------------------------------- *)
\* id INTEGER PRIMARY KEY AUTOINCREMENT: one more than the largest id the
\* table has ever held (sqlite_sequence), never a reused one
NextId(t) == seq[t] + 1

\* authors(name TEXT NOT NULL, email TEXT UNIQUE NOT NULL): may the row with
\* id i (None: a new row) hold name and email
AuthorRowOk(i, name, email) ==
    /\ name # NoneStr
    /\ email # "none"
    /\ \A r \in authors : r.id # i => r.email # email

\* articles(author_id NOT NULL REFERENCES authors, magazine_id NOT NULL
\* REFERENCES magazines), with PRAGMA foreign_keys = ON
ArticleRowOk(aid, mid) ==
    /\ aid # None /\ mid # None
    /\ aid \in Ids(authors)
    /\ mid \in Ids(magazines)

\* foreign keys without ON DELETE CASCADE enforcement
CascadeNone(A, M, R) == R

\* ON DELETE CASCADE of both foreign keys
Cascade(A, M, R) == {r \in R : r.author_id \in Ids(A) /\ r.magazine_id \in Ids(M)}

(* ------------------------- connection provider ------------------------ *)
\* get_connection() without the reopening branch
GetConnectionNoReopen ==
    IF mode = "test"
    THEN IF shared = "none" THEN "open" ELSE shared
    ELSE shared

\* _shared_connection after get_connection(): test mode creates the shared
\* handle on first use and re-creates it when `SELECT 1` on the old one raises
\* ProgrammingError (it was closed); normal mode never touches it
GetConnection ==
    IF mode = "test"
    THEN IF shared = "none" THEN "open"
         ELSE IF shared = "closed" THEN "open"
         ELSE shared
    ELSE shared

\* get_connection() returning _shared_connection without probing it
HandleStale == IF mode = "test" THEN (IF shared = "none" THEN "open" ELSE shared) ELSE "open"

\* the handle get_connection() returns: the shared one, or a fresh handle on
\* the persistent file
Handle == IF mode = "test" THEN GetConnection ELSE "open"

\* a statement that writes fails with "database is locked" while a leaked
\* handle of the persistent file holds the write lock
Busy == mode = "normal" /\ locked

\* the handle on which a statement failed is left open with its transaction
Leak == IF mode = "normal" THEN TRUE ELSE locked

\* conn.close() on handle state c = <<shared, authors, magazines, articles, seq>>:
\* closing the only handle of the shared in-memory database destroys the
\* database; closing a handle of the persistent file changes nothing
Close(c) ==
    IF mode = "test"
    THEN <<"closed", {}, {}, {}, NoSeq>>
    ELSE c

SetStore(c) ==
    /\ shared' = c[1]
    /\ authors' = c[2]
    /\ magazines' = c[3]
    /\ articles' = c[4]
    /\ seq' = c[5]

\* the call raised before or at its statement: nothing written
Raise(op, o, arg, kind) ==
    /\ ret' = Result(op, o, arg, kind, None)
    /\ UNCHANGED <<authors, magazines, articles, seq, ever, objs>>

\* conn = get_connection(); cursor.execute(...): a statement on a closed
\* handle raises ProgrammingError, otherwise the call goes on with Body
DbCall(op, o, arg, Body) ==
    IF Handle = "open"
    THEN Body
    ELSE /\ shared' = GetConnection
         /\ Raise(op, o, arg, "ProgrammingError")
         /\ UNCHANGED <<mode, locked>>

\* a call that only reads through a handle it does not close
Query(op, o, arg, val) ==
    /\ DbCall(op, o, arg,
          /\ shared' = GetConnection
          /\ ret' = Result(op, o, arg, "ok", val)
          /\ UNCHANGED <<authors, magazines, articles, seq, ever, objs>>)
    /\ UNCHANGED <<mode, locked>>

(* ------------------------- Author ------------------------------------- *)
\* Author.__init__: name is validated only when given
AuthorInitOk(name) == name = NoneStr \/ (IsStr(name) /\ Strip(name) # << >>)

AuthorInit(o, id, name, email) ==
    /\ ~aobj[o].live
    /\ \A p \in AObjs : p < o => aobj[p].live
    /\ IF AuthorInitOk(name)
       THEN /\ aobj' = [aobj EXCEPT ![o] = [live |-> TRUE, id |-> id, name |-> name, email |-> email]]
            /\ ret' = Result("Author", o, None, "ok", None)
       ELSE /\ aobj' = aobj
            /\ ret' = Result("Author", o, None, "ValueError", None)
    /\ UNCHANGED <<mode, shared, store, locked, mobj, robj, ever>>

\* a name property with a setter that stores the value
AuthorNameSetterStores(value) == "ok"

\* `author.name = value`: the name property has no setter, so the assignment
\* raises AttributeError whatever the value
AuthorNameSetter(value) == "AttributeError"

AuthorSetName(o, value) ==
    LET kind == AuthorNameSetter(value)
    IN /\ aobj[o].live
       /\ aobj' = IF kind = "ok" THEN [aobj EXCEPT ![o].name = value] ELSE aobj
       /\ ret' = Result("Author.name=", o, None, kind, None)
       /\ UNCHANGED <<mode, shared, store, locked, mobj, robj, ever>>

\* Author.new_from_db / Author.find_by_id against the rows A
AuthorFind(A, i) == {[id |-> r.id, name |-> r.name, email |-> r.email] : r \in {x \in A : x.id = i}}

AuthorFindById(i) == Query("Author.find_by_id", None, i, AuthorFind(authors, i))

AuthorSave(o) ==
    LET a == aobj[o]
        new == NextId("authors")
    IN
    /\ a.live
    /\ UNCHANGED mode
    /\ DbCall("Author.save", o, None,
          /\ shared' = GetConnection
          /\ UNCHANGED <<mobj, robj, magazines, articles>>
          /\ IF Busy
             THEN /\ Raise("Author.save", o, None, "OperationalError")
                  /\ UNCHANGED locked
             ELSE IF a.id = None
             THEN IF AuthorRowOk(None, a.name, a.email)
                  THEN /\ authors' = authors \cup {[id |-> new, name |-> a.name, email |-> a.email]}
                       /\ seq' = [seq EXCEPT !["authors"] = new]
                       /\ ever' = [ever EXCEPT !["authors"] = @ \cup {new}]
                       /\ aobj' = [aobj EXCEPT ![o].id = new]
                       /\ ret' = Result("Author.save", o, None, "ok", new)
                       /\ UNCHANGED locked
                  ELSE /\ Raise("Author.save", o, None, "IntegrityError")
                       /\ locked' = Leak
             ELSE IF a.id \notin Ids(authors) \/ AuthorRowOk(a.id, a.name, a.email)
                  THEN /\ authors' = {IF r.id = a.id THEN [r EXCEPT !.name = a.name, !.email = a.email] ELSE r : r \in authors}
                       /\ ret' = Result("Author.save", o, None, "ok", a.id)
                       /\ UNCHANGED <<seq, ever, aobj, locked>>
                  ELSE /\ Raise("Author.save", o, None, "IntegrityError")
                       /\ locked' = Leak)

(* ------------------------- query helpers ------------------------------ *)
\* rows in storage (rowid) order
RECURSIVE SeqById(_)
SeqById(S) ==
    IF S = {} THEN << >>
    ELSE LET m == CHOOSE r \in S : \A x \in S : r.id <= x.id
         IN <<m>> \o SeqById(S \ {m})

RECURSIVE SeqOfInts(_)
SeqOfInts(S) ==
    IF S = {} THEN << >>
    ELSE LET m == CHOOSE i \in S : \A x \in S : i <= x
         IN <<m>> \o SeqOfInts(S \ {m})

\* Magazine.new_from_db / Magazine.find_by_id against the tables M
MagazineFind(M, i) == {[id |-> r.id, name |-> r.title, category |-> r.category] : r \in {x \in M : x.id = i}}

\* Article.new_from_db: the row with its author and magazine looked up by id
ArticleFromDb(A, M, r) ==
    [id |-> r.id, title |-> r.title,
     author |-> IF AuthorFind(A, r.author_id) = {} THEN None ELSE r.author_id,
     magazine |-> IF MagazineFind(M, r.magazine_id) = {} THEN None ELSE r.magazine_id]

ArticlesFromDb(A, M, rows) ==
    LET s == SeqById(rows) IN [k \in 1..Len(s) |-> ArticleFromDb(A, M, s[k])]

\* SELECT * FROM articles WHERE author_id = ?   (NULL matches no row)
ArticlesOfAuthor(i) == {r \in articles : i # None /\ r.author_id = i}

\* SELECT * FROM articles WHERE magazine_id = ?
ArticlesOfMagazine(i) == {r \in articles : i # None /\ r.magazine_id = i}

\* SELECT DISTINCT m.* FROM magazines m JOIN articles a ON a.magazine_id = m.id
\* WHERE a.author_id = ?
MagazinesOfAuthor(i) == {m \in magazines : \E r \in ArticlesOfAuthor(i) : r.magazine_id = m.id}

\* the rows of a join without DISTINCT
KeepAll(s) == s

\* SELECT DISTINCT: each value once
RECURSIVE Distinct(_)
Distinct(s) ==
    IF s = << >> THEN s
    ELSE LET d == Distinct(SubSeq(s, 1, Len(s) - 1))
         IN IF \E k \in 1..Len(d) : d[k] = s[Len(s)] THEN d ELSE Append(d, s[Len(s)])

\* magazines m JOIN articles a ON a.magazine_id = m.id WHERE a.author_id = ?:
\* one joined row per article, given by the magazine's id
JoinMagazines(i) ==
    LET s == SeqById({r \in ArticlesOfAuthor(i) : r.magazine_id \in Ids(magazines)})
    IN [k \in 1..Len(s) |-> s[k].magazine_id]

\* authors a JOIN articles ar ON ar.author_id = a.id WHERE ar.magazine_id = ?
JoinAuthors(i) ==
    LET s == SeqById({r \in ArticlesOfMagazine(i) : r.author_id \in Ids(authors)})
    IN [k \in 1..Len(s) |-> s[k].author_id]

(* ------------------------- Author relationships ----------------------- *)
AuthorArticles(o) ==
    /\ aobj[o].live
    /\ Query("Author.articles", o, None,
             ArticlesFromDb(authors, magazines, ArticlesOfAuthor(aobj[o].id)))

AuthorMagazines(o) ==
    /\ aobj[o].live
    /\ Query("Author.magazines", o, None,
             Distinct(JoinMagazines(aobj[o].id)))

AuthorTopicAreas(o) ==
    /\ aobj[o].live
    /\ Query("Author.topic_areas", o, None,
             {m.category : m \in MagazinesOfAuthor(aobj[o].id)})

(* ------------------------- Article ------------------------------------ *)
NotObj == -1      \* an argument that is neither None nor of the expected class

\* title.setter: the outcome of validating value
TitleCheck(value) ==
    IF ~IsStr(value) THEN "TypeError"
    ELSE IF Len(Strip(value)) = 0 THEN "ValueError"
    ELSE "ok"

\* author.setter / magazine.setter: None or an instance of the class
RefCheck(value) == IF value # None /\ value = NotObj THEN "TypeError" ELSE "ok"

ArticleInit(o, id, title, content, author, magazine) ==
    LET kind == IF TitleCheck(title) # "ok" THEN TitleCheck(title)
                ELSE IF RefCheck(author) # "ok" THEN RefCheck(author)
                ELSE RefCheck(magazine)
    IN
    /\ ~robj[o].live
    /\ \A p \in RObjs : p < o => robj[p].live
    /\ author \in AObjs => aobj[author].live
    /\ magazine \in MObjs => mobj[magazine].live
    /\ robj' = IF kind = "ok"
               THEN [robj EXCEPT ![o] = [live |-> TRUE, id |-> id, title |-> Strip(title),
                                         content |-> content, author |-> author, magazine |-> magazine]]
               ELSE robj
    /\ ret' = Result("Article", o, None, kind, None)
    /\ UNCHANGED <<mode, shared, store, locked, aobj, mobj, ever>>

\* article.title = value
ArticleSetTitle(o, value) ==
    /\ robj[o].live
    /\ robj' = IF TitleCheck(value) = "ok" THEN [robj EXCEPT ![o].title = Strip(value)] ELSE robj
    /\ ret' = Result("Article.title=", o, None, TitleCheck(value), None)
    /\ UNCHANGED <<mode, shared, store, locked, aobj, mobj, ever>>

\* article.author = value
ArticleSetAuthor(o, value) ==
    /\ robj[o].live
    /\ value \in AObjs => aobj[value].live
    /\ robj' = IF RefCheck(value) = "ok" THEN [robj EXCEPT ![o].author = value] ELSE robj
    /\ ret' = Result("Article.author=", o, None, RefCheck(value), None)
    /\ UNCHANGED <<mode, shared, store, locked, aobj, mobj, ever>>

\* article.magazine = value
ArticleSetMagazine(o, value) ==
    /\ robj[o].live
    /\ value \in MObjs => mobj[value].live
    /\ robj' = IF RefCheck(value) = "ok" THEN [robj EXCEPT ![o].magazine = value] ELSE robj
    /\ ret' = Result("Article.magazine=", o, None, RefCheck(value), None)
    /\ UNCHANGED <<mode, shared, store, locked, aobj, mobj, ever>>

\* Article.save: `if not self.author or not self.magazine: raise ValueError`
ArticleSaveReady(author, magazine) == author # None /\ magazine # None

\* Article.save ends with conn.close()
ArticleSaveEnd(c) == Close(c)

\* Article.find_by_id calls conn.close() after fetching the row
ArticleFindEnd(c) == Close(c)

\* the INSERT / UPDATE of Article.save for an article with the given id and
\* fields, called by op on Article object o (None: an object the caller does
\* not hold).  author and magazine are the referenced objects.
ArticleSaveBody(op, who, arg, o, id, title, content, author, magazine) ==
    LET aid == aobj[author].id
        mid == mobj[magazine].id
        new == IF id = None THEN NextId("articles") ELSE id
        row == [id |-> new, title |-> title, content |-> content, author_id |-> aid, magazine_id |-> mid]
        ok  == IF id = None THEN ArticleRowOk(aid, mid)
               ELSE id \notin Ids(articles) \/ ArticleRowOk(aid, mid)
        R2  == IF id = None THEN articles \cup {row}
               ELSE {IF r.id = id THEN row ELSE r : r \in articles}
        q2  == IF id = None THEN [seq EXCEPT !["articles"] = new] ELSE seq
    IN
    DbCall(op, who, arg,
       IF Busy
       THEN /\ shared' = GetConnection
            /\ Raise(op, who, arg, "OperationalError")
            /\ UNCHANGED locked
       ELSE IF ~ok
       THEN /\ shared' = GetConnection
            /\ Raise(op, who, arg, "IntegrityError")
            /\ locked' = Leak
       ELSE /\ SetStore(ArticleSaveEnd(<<GetConnection, authors, magazines, R2, q2>>))
            /\ ever' = IF id = None THEN [ever EXCEPT !["articles"] = @ \cup {new}] ELSE ever
            /\ robj' = IF o # None THEN [robj EXCEPT ![o].id = new] ELSE robj
            /\ ret' = Result(op, who, arg, "ok", new)
            /\ UNCHANGED <<locked, aobj, mobj>>)

ArticleSave(o) ==
    LET r == robj[o] IN
    /\ r.live
    /\ UNCHANGED mode
    /\ IF ~ArticleSaveReady(r.author, r.magazine)
       THEN /\ Raise("Article.save", o, None, "ValueError")
            /\ UNCHANGED <<shared, locked>>
       ELSE ArticleSaveBody("Article.save", o, None, o, r.id, r.title, r.content, r.author, r.magazine)

ArticleFindById(i) ==
    LET rows == {r \in articles : r.id = i}
        c == ArticleFindEnd(<<GetConnection, authors, magazines, articles, seq>>)
    IN
    /\ DbCall("Article.find_by_id", None, i,
          /\ IF rows = {}
             THEN /\ SetStore(c)
                  /\ ret' = Result("Article.find_by_id", None, i, "ok", {})
             ELSE \* new_from_db: Author.find_by_id and Magazine.find_by_id
                  \* call get_connection() again, after the close
                  /\ SetStore(<<IF mode = "test" THEN "open" ELSE c[1], c[2], c[3], c[4], c[5]>>)
                  /\ ret' = Result("Article.find_by_id", None, i, "ok",
                                   {ArticleFromDb(c[2], c[3], r) : r \in rows})
          /\ UNCHANGED <<objs, ever>>)
    /\ UNCHANGED <<mode, locked>>

\* add_article without its type check
IsMagazineAny(magazine) == TRUE

\* isinstance(magazine, Magazine)
IsMagazine(magazine) == magazine \in MObjs

\* Author.add_article(magazine, title): the type check, then
\* Article(title=title, content="", author=self, magazine=magazine).save()
AuthorAddArticle(o, magazine, title) ==
    LET arg == <<magazine, title>>
        init == IF TitleCheck(title) # "ok" THEN TitleCheck(title) ELSE RefCheck(magazine)
    IN
    /\ aobj[o].live
    /\ magazine \in MObjs => mobj[magazine].live
    /\ UNCHANGED mode
    /\ IF ~IsMagazine(magazine)
       THEN /\ Raise("Author.add_article", o, arg, "TypeError")
            /\ UNCHANGED <<shared, locked>>
       ELSE IF init # "ok"
       THEN /\ Raise("Author.add_article", o, arg, init)
            /\ UNCHANGED <<shared, locked>>
       ELSE IF ~ArticleSaveReady(o, magazine)
       THEN /\ Raise("Author.add_article", o, arg, "ValueError")
            /\ UNCHANGED <<shared, locked>>
       ELSE ArticleSaveBody("Author.add_article", o, arg, None, None, Strip(title), "", o, magazine)

(* ------------------------- Magazine ----------------------------------- *)
\* name.setter / category.setter: the outcome of validating value
\* setters that store whatever they are given
MagazineFieldCheckAny(value) == "ok"

MagazineFieldCheck(value) ==
    IF ~IsStr(value) THEN "TypeError"
    ELSE IF Len(Strip(value)) = 0 THEN "ValueError"
    ELSE "ok"

MagazineInit(o, id, name, category) ==
    LET kind == IF MagazineFieldCheck(name) # "ok" THEN MagazineFieldCheck(name)
                ELSE MagazineFieldCheck(category)
    IN
    /\ ~mobj[o].live
    /\ \A p \in MObjs : p < o => mobj[p].live
    /\ mobj' = IF kind = "ok"
               THEN [mobj EXCEPT ![o] = [live |-> TRUE, id |-> id, name |-> Strip(name), category |-> Strip(category)]]
               ELSE mobj
    /\ ret' = Result("Magazine", o, None, kind, None)
    /\ UNCHANGED <<mode, shared, store, locked, aobj, robj, ever>>

\* magazine.name = value
MagazineSetName(o, value) ==
    /\ mobj[o].live
    /\ mobj' = IF MagazineFieldCheck(value) = "ok" THEN [mobj EXCEPT ![o].name = Strip(value)] ELSE mobj
    /\ ret' = Result("Magazine.name=", o, None, MagazineFieldCheck(value), None)
    /\ UNCHANGED <<mode, shared, store, locked, aobj, robj, ever>>

\* magazine.category = value
MagazineSetCategory(o, value) ==
    /\ mobj[o].live
    /\ mobj' = IF MagazineFieldCheck(value) = "ok" THEN [mobj EXCEPT ![o].category = Strip(value)] ELSE mobj
    /\ ret' = Result("Magazine.category=", o, None, MagazineFieldCheck(value), None)
    /\ UNCHANGED <<mode, shared, store, locked, aobj, robj, ever>>

\* Magazine.find_by_id and Magazine.save: `if "pytest" not in sys.modules: conn.close()`
MagazineEnd(c) == IF mode # "test" THEN Close(c) ELSE c

MagazineFindById(i) ==
    /\ DbCall("Magazine.find_by_id", None, i,
          /\ SetStore(MagazineEnd(<<GetConnection, authors, magazines, articles, seq>>))
          /\ ret' = Result("Magazine.find_by_id", None, i, "ok", MagazineFind(magazines, i))
          /\ UNCHANGED <<objs, ever>>)
    /\ UNCHANGED <<mode, locked>>

MagazineSave(o) ==
    LET m == mobj[o]
        new == IF m.id = None THEN NextId("magazines") ELSE m.id
        M2 == IF m.id = None
              THEN magazines \cup {[id |-> new, title |-> m.name, category |-> m.category]}
              ELSE {IF r.id = m.id THEN [r EXCEPT !.title = m.name, !.category = m.category] ELSE r : r \in magazines}
        q2 == IF m.id = None THEN [seq EXCEPT !["magazines"] = new] ELSE seq
    IN
    /\ m.live
    /\ UNCHANGED <<mode, locked>>
    /\ DbCall("Magazine.save", o, None,
          IF Busy
          THEN /\ shared' = GetConnection
               /\ Raise("Magazine.save", o, None, "OperationalError")
          ELSE /\ SetStore(MagazineEnd(<<GetConnection, authors, M2, articles, q2>>))
               /\ ever' = IF m.id = None THEN [ever EXCEPT !["magazines"] = @ \cup {new}] ELSE ever
               /\ mobj' = [mobj EXCEPT ![o].id = new]
               /\ ret' = Result("Magazine.save", o, None, "ok", new)
               /\ UNCHANGED <<aobj, robj>>)

MagazineArticles(o) ==
    /\ mobj[o].live
    /\ Query("Magazine.articles", o, None,
             ArticlesFromDb(authors, magazines, ArticlesOfMagazine(mobj[o].id)))

MagazineContributors(o) ==
    /\ mobj[o].live
    /\ Query("Magazine.contributors", o, None,
             Distinct(JoinAuthors(mobj[o].id)))

MagazineArticleTitles(o) ==
    /\ mobj[o].live
    /\ Query("Magazine.article_titles", o, None,
             LET s == SeqById(ArticlesOfMagazine(mobj[o].id))
             IN [k \in 1..Len(s) |-> s[k].title])

\* SELECT COUNT(id) ... WHERE magazine_id = i GROUP BY author_id
CountIn(i, aid) == Cardinality({r \in ArticlesOfMagazine(i) : r.author_id = aid})

\* HAVING COUNT(id) >= 2
ContributingFromTwo(n) == n >= 2

\* HAVING COUNT(id) > 2
Contributing(n) == n > 2

\* the author_id groups the query of contributing_authors returns
ContributingIds(i) == {aid \in {r.author_id : r \in ArticlesOfMagazine(i)} : Contributing(CountIn(i, aid))}

\* [Author.find_by_id(aid) for aid in author_ids]: the id of each Author
\* found, None for one that is not
MagazineContributingAuthors(o) ==
    /\ mobj[o].live
    /\ Query("Magazine.contributing_authors", o, None,
             LET s == SeqOfInts(ContributingIds(mobj[o].id))
             IN [k \in 1..Len(s) |-> IF AuthorFind(authors, s[k]) = {} THEN None ELSE s[k]])

\* COUNT(id) AS total_articles ... GROUP BY magazine_id
TotalArticles(mid) == Cardinality({r \in articles : r.magazine_id = mid})

\* ORDER BY total_articles ASC LIMIT 1
TopGroupsAsc == {mid \in {r.magazine_id : r \in articles} :
                    \A other \in {r.magazine_id : r \in articles} : TotalArticles(mid) <= TotalArticles(other)}

\* ORDER BY total_articles DESC LIMIT 1: a group no other group outnumbers
\* (which of several equal groups comes first is left to the engine)
TopGroups == {mid \in {r.magazine_id : r \in articles} :
                 \A other \in {r.magazine_id : r \in articles} : TotalArticles(mid) >= TotalArticles(other)}

MagazineTopPublisher ==
    /\ DbCall("Magazine.top_publisher", None, None,
          IF TopGroups = {}
          THEN /\ shared' = GetConnection
               /\ UNCHANGED <<authors, magazines, articles, seq, objs, ever>>
               /\ ret' = Result("Magazine.top_publisher", None, None, "ok", {})
          ELSE \E mid \in TopGroups :
               /\ SetStore(MagazineEnd(<<GetConnection, authors, magazines, articles, seq>>))
               /\ ret' = Result("Magazine.top_publisher", None, None, "ok", MagazineFind(magazines, mid))
               /\ UNCHANGED <<objs, ever>>)
    /\ UNCHANGED <<mode, locked>>

(* ------------------------- rows deleted by the caller ----------------- *)
\* DELETE FROM authors WHERE id = i; commit  -- on get_connection()
DeleteAuthor(i) ==
    LET A2 == {r \in authors : r.id # i} IN
    /\ i \in Ids(authors)
    /\ UNCHANGED <<mode, locked>>
    /\ DbCall("DELETE authors", None, i,
          /\ shared' = GetConnection
          /\ IF Busy
             THEN Raise("DELETE authors", None, i, "OperationalError")
             ELSE /\ authors' = A2
                  /\ articles' = Cascade(A2, magazines, articles)
                  /\ ret' = Result("DELETE authors", None, i, "ok", None)
                  /\ UNCHANGED <<magazines, seq, objs, ever>>)

\* DELETE FROM magazines WHERE id = i; commit  -- on get_connection()
DeleteMagazine(i) ==
    LET M2 == {r \in magazines : r.id # i} IN
    /\ i \in Ids(magazines)
    /\ UNCHANGED <<mode, locked>>
    /\ DbCall("DELETE magazines", None, i,
          /\ shared' = GetConnection
          /\ IF Busy
             THEN Raise("DELETE magazines", None, i, "OperationalError")
             ELSE /\ magazines' = M2
                  /\ articles' = Cascade(authors, M2, articles)
                  /\ ret' = Result("DELETE magazines", None, i, "ok", None)
                  /\ UNCHANGED <<authors, seq, objs, ever>>)

\* INSERT INTO articles (title, content, author_id, magazine_id) VALUES
\* (...); commit  -- written by the caller on get_connection(), which the
\* caller leaves open
InsertArticle(aid, mid) ==
    LET new == NextId("articles")
        row == [id |-> new, title |-> <<"a">>, content |-> "c", author_id |-> aid, magazine_id |-> mid]
    IN
    /\ UNCHANGED mode
    /\ DbCall("INSERT articles", None, <<aid, mid>>,
          /\ shared' = GetConnection
          /\ IF Busy
             THEN Raise("INSERT articles", None, <<aid, mid>>, "OperationalError") /\ UNCHANGED locked
             ELSE IF ~ArticleRowOk(aid, mid)
             THEN Raise("INSERT articles", None, <<aid, mid>>, "IntegrityError") /\ locked' = Leak
             ELSE /\ articles' = articles \cup {row}
                  /\ seq' = [seq EXCEPT !["articles"] = new]
                  /\ ever' = [ever EXCEPT !["articles"] = @ \cup {new}]
                  /\ ret' = Result("INSERT articles", None, <<aid, mid>>, "ok", new)
                  /\ UNCHANGED <<authors, magazines, objs, locked>>)

\* the interpreter reclaims a handle that a raising call left open: its
\* transaction is rolled back and the write lock released
Collect ==
    /\ locked
    /\ locked' = FALSE
    /\ UNCHANGED <<mode, shared, store, objs, ever, ret>>

(* ------------------------- specification ------------------------------ *)
\* Entity life cycle: one object of each class is constructed, validated,
\* saved, looked up and its row deleted, in both connection modes.
\* the articles AUTOINCREMENT counter is below the cap n
Room(n) == seq["articles"] < n

\* the id argument of a constructor: absent, or the id of the first row
IdArgs == {None, 1}
FindArgs == 1..(MaxId + 1)
AuthorNames == {<<"a">>, <<" ", "b">>, <<" ">>, NotStr}
AuthorEmails == {"e1", "none"}
MagazineNames == {<<"a">>, <<" ", "b">>, << >>, NoneStr}
MagazineCategories == {<<"a">>, NotStr}
ArticleTitles == {<<"a">>, <<" ">>, NoneStr}
AuthorRefs == {1, None, NotObj}
MagazineRefs == {1, None, NotObj}

Next ==
    \/ \E id \in IdArgs, name \in AuthorNames, email \in AuthorEmails : AuthorInit(1, id, name, email)
    \/ \E v \in AuthorNames : AuthorSetName(1, v)
    \/ AuthorSave(1)
    \/ \E i \in FindArgs : AuthorFindById(i)
    \/ Room(MaxDrafts) /\ \E m \in MagazineRefs, t \in ArticleTitles : AuthorAddArticle(1, m, t)
    \/ AuthorArticles(1)
    \/ AuthorMagazines(1)
    \/ AuthorTopicAreas(1)
    \/ \E id \in IdArgs, name \in MagazineNames, cat \in MagazineCategories : MagazineInit(1, id, name, cat)
    \/ \E v \in MagazineNames : MagazineSetName(1, v)
    \/ \E v \in MagazineCategories : MagazineSetCategory(1, v)
    \/ MagazineSave(1)
    \/ \E i \in FindArgs : MagazineFindById(i)
    \/ \E id \in IdArgs, t \in ArticleTitles, a \in AuthorRefs, m \in MagazineRefs :
          ArticleInit(1, id, t, "c", a, m)
    \/ \E v \in ArticleTitles : ArticleSetTitle(1, v)
    \/ \E v \in AuthorRefs : ArticleSetAuthor(1, v)
    \/ \E v \in MagazineRefs : ArticleSetMagazine(1, v)
    \/ (robj[1].id = None => Room(MaxDrafts)) /\ ArticleSave(1)
    \/ \E i \in FindArgs : ArticleFindById(i)
    \/ \E i \in FindArgs : DeleteAuthor(i)
    \/ \E i \in FindArgs : DeleteMagazine(i)
    \/ Collect

Spec == Init /\ [][Next]_vars

\* Relationships and aggregates: two authors and two magazines with fixed
\* valid fields write articles through add_article; rows are deleted; every
\* relationship and aggregate query is called.
RelEmail(o) == IF o = 1 THEN "e1" ELSE "e2"

NextRel ==
    \/ \E o \in AObjs : AuthorInit(o, None, <<"a">>, RelEmail(o))
    \/ \E o \in AObjs : AuthorSave(o)
    \/ \E o \in MObjs : MagazineInit(o, None, <<"a">>, <<"a">>)
    \/ \E o \in MObjs : MagazineSave(o)
    \/ Room(MaxArticles) /\ \E o \in AObjs, m \in MObjs : AuthorAddArticle(o, m, <<"a">>)
    \/ \E o \in AObjs : AuthorArticles(o)
    \/ \E o \in AObjs : AuthorMagazines(o)
    \/ \E o \in AObjs : AuthorTopicAreas(o)
    \/ \E o \in MObjs : MagazineArticles(o)
    \/ \E o \in MObjs : MagazineContributors(o)
    \/ \E o \in MObjs : MagazineArticleTitles(o)
    \/ \E o \in MObjs : MagazineContributingAuthors(o)
    \/ MagazineTopPublisher
    \/ \E i \in 1..2 : DeleteAuthor(i)
    \/ \E i \in 1..2 : DeleteMagazine(i)
    \/ Collect

SpecRel == Init /\ [][NextRel]_vars

\* Rows written by the caller: authors and magazines are saved, article rows
\* are inserted directly on the handle, looked up by id, and parents deleted.
NextRows ==
    \/ \E o \in AObjs : AuthorInit(o, None, <<"a">>, RelEmail(o))
    \/ \E o \in AObjs : AuthorSave(o)
    \/ \E o \in MObjs : MagazineInit(o, None, <<"a">>, <<"a">>)
    \/ \E o \in MObjs : MagazineSave(o)
    \/ Room(MaxArticles) /\ \E aid \in FindArgs, mid \in FindArgs : InsertArticle(aid, mid)
    \/ \E i \in 1..MaxArticles : ArticleFindById(i)
    \/ \E i \in FindArgs : AuthorFindById(i)
    \/ \E i \in FindArgs : MagazineFindById(i)
    \/ \E i \in FindArgs : DeleteAuthor(i)
    \/ \E i \in FindArgs : DeleteMagazine(i)
    \/ Collect

SpecRows == Init /\ [][NextRows]_vars

(* ------------------------- properties --------------------------------- *)
Range(f) == {f[k] : k \in DOMAIN f}

\* C1: save() is insert-then-update: a successful save of an entity whose id
\* is absent adds exactly one row, which holds the entity's fields under its
\* new id; a successful save of an entity whose row exists leaves the row
\* count and the id unchanged and makes that row hold the entity's fields.
C1_SaveInsertsOnceThenUpdates ==
    [][ /\ \A o \in AObjs : (AuthorSave(o) /\ ret'.kind = "ok") =>
              IF aobj[o].id = None
              THEN /\ Cardinality(authors') = Cardinality(authors) + 1
                   /\ [id |-> aobj'[o].id, name |-> aobj[o].name, email |-> aobj[o].email] \in authors'
              ELSE aobj[o].id \in Ids(authors) =>
                   /\ Cardinality(authors') = Cardinality(authors)
                   /\ aobj'[o].id = aobj[o].id
                   /\ [id |-> aobj[o].id, name |-> aobj[o].name, email |-> aobj[o].email] \in authors'
        /\ \A o \in MObjs : (MagazineSave(o) /\ ret'.kind = "ok") =>
              IF mobj[o].id = None
              THEN /\ Cardinality(magazines') = Cardinality(magazines) + 1
                   /\ [id |-> mobj'[o].id, title |-> mobj[o].name, category |-> mobj[o].category] \in magazines'
              ELSE mobj[o].id \in Ids(magazines) =>
                   /\ Cardinality(magazines') = Cardinality(magazines)
                   /\ mobj'[o].id = mobj[o].id
                   /\ [id |-> mobj[o].id, title |-> mobj[o].name, category |-> mobj[o].category] \in magazines'
        /\ \A o \in RObjs : (ArticleSave(o) /\ ret'.kind = "ok") =>
              IF robj[o].id = None
              THEN /\ Cardinality(articles') = Cardinality(articles) + 1
                   /\ \E r \in articles' : r.id = robj'[o].id /\ r.title = robj[o].title /\ r.content = robj[o].content
              ELSE robj[o].id \in Ids(articles) =>
                   /\ Cardinality(articles') = Cardinality(articles)
                   /\ robj'[o].id = robj[o].id
                   /\ \E r \in articles' : r.id = robj[o].id /\ r.title = robj[o].title /\ r.content = robj[o].content
      ]_vars

\* C2: a successful save of an entity whose id is absent gives it a non-null
\* id that no row of that table has carried before.
C2_SaveAssignsUnusedId ==
    [][ /\ \A o \in AObjs : (AuthorSave(o) /\ aobj[o].id = None /\ ret'.kind = "ok") =>
              aobj'[o].id # None /\ aobj'[o].id \notin ever["authors"]
        /\ \A o \in MObjs : (MagazineSave(o) /\ mobj[o].id = None /\ ret'.kind = "ok") =>
              mobj'[o].id # None /\ mobj'[o].id \notin ever["magazines"]
        /\ (ret'.op = "Author.add_article" /\ ret'.kind = "ok" /\ ret' # ret) =>
              ret'.val # None /\ ret'.val \notin ever["articles"]
      ]_vars

\* C3: Article.save() raises the precondition error and leaves the articles
\* table and the article's id unchanged when its author or magazine is
\* absent; when both are present it succeeds and the stored row carries the
\* ids of the referenced Author and Magazine.
C3_ArticleSaveContract ==
    [][ \A o \in RObjs : ArticleSave(o) =>
           IF robj[o].author = None \/ robj[o].magazine = None
           THEN /\ ret'.kind = "ValueError"
                /\ articles' = articles
                /\ robj'[o].id = robj[o].id
           ELSE /\ ret'.kind = "ok"
                /\ \E r \in articles' :
                      /\ r.id = robj'[o].id
                      /\ r.author_id = aobj[robj[o].author].id
                      /\ r.magazine_id = mobj[robj[o].magazine].id
      ]_vars

\* C4: add_article(m, t) of a saved Author with a saved Magazine and a valid
\* title returns an Article with a non-null id; the author's articles() then
\* holds an article with that id and title resolved to this author and this
\* magazine, and the magazine's article_titles() holds the title.
C4_AddArticleIsVisible ==
    [][ \A o \in AObjs, m \in MObjs :
           ( /\ AuthorAddArticle(o, m, <<"a">>)
             /\ aobj[o].id \in Ids(authors)
             /\ mobj[m].id \in Ids(magazines) ) =>
           /\ ret'.kind = "ok"
           /\ ret'.val # None
           /\ \E r \in articles' :
                 /\ r.id = ret'.val /\ r.title = <<"a">>
                 /\ r.author_id = aobj[o].id /\ AuthorFind(authors', r.author_id) # {}
                 /\ r.magazine_id = mobj[m].id /\ MagazineFind(magazines', r.magazine_id) # {}
      ]_vars

\* C5: in test mode no entity operation closes the shared handle, and the
\* rows committed earlier stay in the store (only a DELETE removes rows).
C5_SharedHandleSurvives ==
    [][ ( /\ mode = "test"
          /\ ~ \E i \in FindArgs : DeleteAuthor(i) \/ DeleteMagazine(i) ) =>
        /\ shared' # "closed"
        /\ Ids(authors) \subseteq Ids(authors')
        /\ Ids(magazines) \subseteq Ids(magazines')
        /\ Ids(articles) \subseteq Ids(articles')
      ]_vars

\* C6: add_article with a magazine argument that is not a Magazine raises
\* TypeError and leaves the three tables unchanged.
C6_AddArticleRejectsNonMagazine ==
    [][ \A o \in AObjs, m \in {None, NotObj}, t \in ArticleTitles :
           ( /\ ret'.op = "Author.add_article" /\ ret'.obj = o /\ ret'.arg = <<m, t>>
             /\ AuthorAddArticle(o, m, t) ) =>
           /\ ret'.kind = "TypeError"
           /\ authors' = authors /\ magazines' = magazines /\ articles' = articles
      ]_vars

\* C6 witness: a saved author's add_article was refused for its argument
C6_Witness ==
    /\ ret.op = "Author.add_article" /\ ret.kind = "TypeError"
    /\ ret.arg[1] = NotObj /\ ret.arg[2] = <<"a">>
    /\ aobj[ret.obj].id \in Ids(authors)

\* C7: top_publisher() returns the absent result exactly when the articles
\* table is empty, and otherwise a Magazine that no magazine outnumbers in
\* articles.
C7_TopPublisherIsMaximal ==
    ret.op = "Magazine.top_publisher" =>
        /\ ret.kind = "ok"
        /\ (ret.val = {}) <=> (articles = {})
        /\ \A e \in ret.val :
              /\ e.id \in Ids(magazines)
              /\ \A m \in magazines :
                    Cardinality({r \in articles : r.magazine_id = e.id})
                       >= Cardinality({r \in articles : r.magazine_id = m.id})

\* C7 witness: the magazine returned has strictly more articles than another
\* magazine that has some
C7_Witness ==
    /\ ret.op = "Magazine.top_publisher"
    /\ \E e \in ret.val : \E m \in magazines :
          /\ m.id # e.id
          /\ Cardinality({r \in articles : r.magazine_id = m.id}) >= 1
          /\ Cardinality({r \in articles : r.magazine_id = e.id})
                > Cardinality({r \in articles : r.magazine_id = m.id})

\* C8: contributing_authors() of magazine m returns exactly the authors with
\* more than 2 article rows in m, each once.
C8_ContributingAuthorsExact ==
    ret.op = "Magazine.contributing_authors" =>
        LET i == mobj[ret.obj].id
            expected == {a.id : a \in {x \in authors :
                            Cardinality({r \in articles : r.magazine_id = i /\ r.author_id = x.id}) > 2}}
        IN /\ ret.kind = "ok"
           /\ Range(ret.val) = expected
           /\ Len(ret.val) = Cardinality(expected)

\* C8 witness: an author with three articles in the magazine is returned
\* while the same author's articles elsewhere, or another author's fewer
\* articles, are not counted
C8_Witness ==
    /\ ret.op = "Magazine.contributing_authors"
    /\ Len(ret.val) = 1
    /\ Cardinality({r \in articles : r.magazine_id = mobj[ret.obj].id}) >= 3

\* C9: find_by_id with an id that has no row returns the absent result and
\* does not raise, for each of the three classes.
C9_FindMissingReturnsAbsent ==
    [][ \A i \in FindArgs :
           /\ ( /\ ret'.op = "Author.find_by_id" /\ ret'.arg = i /\ i \notin Ids(authors)
                /\ AuthorFindById(i) ) => (ret'.kind = "ok" /\ ret'.val = {})
           /\ ( /\ ret'.op = "Magazine.find_by_id" /\ ret'.arg = i /\ i \notin Ids(magazines)
                /\ MagazineFindById(i) ) => (ret'.kind = "ok" /\ ret'.val = {})
           /\ ( /\ ret'.op = "Article.find_by_id" /\ ret'.arg = i /\ i \notin Ids(articles)
                /\ ArticleFindById(i) ) => (ret'.kind = "ok" /\ ret'.val = {})
      ]_vars

\* C9 witness: in test mode, after an article save closed the shared handle,
\* find_by_id of the author id saved before it returns the absent result
C9_Witness ==
    /\ mode = "test"
    /\ ever["articles"] # {}
    /\ ret.op = "Author.find_by_id" /\ ret.kind = "ok" /\ ret.val = {}
    /\ ret.arg \in ever["authors"]

\* C10: assigning Author.name raises, and an Author object's name never
\* changes after construction.
C10_AuthorNameIsReadOnly ==
    [][ /\ \A o \in AObjs : aobj[o].live => (aobj'[o].live /\ aobj'[o].name = aobj[o].name)
        /\ ret'.op = "Author.name=" => ret'.kind = "AttributeError"
      ]_vars

\* C10 witness: the assignment was refused on a saved author
C10_Witness ==
    /\ ret.op = "Author.name=" /\ ret.kind = "AttributeError"
    /\ aobj[ret.obj].id \in Ids(authors)
    /\ aobj[ret.obj].name = <<" ", "b">>

\* C11: assigning Article.title on a constructed Article fails and the title
\* keeps its construction-time value.
C11_ArticleTitleIsReadOnly ==
    [][ /\ \A o \in RObjs : robj[o].live => robj'[o].title = robj[o].title
        /\ ret'.op = "Article.title=" => ret'.kind # "ok"
      ]_vars

\* C12: for every article row in the store Article.find_by_id(id) returns an
\* Article whose author and magazine are present and carry the row's
\* author_id and magazine_id.
C12_FindArticleResolvesRefs ==
    [][ \A i \in 1..MaxArticles :
           ( /\ ret'.op = "Article.find_by_id" /\ ret'.arg = i /\ i \in Ids(articles)
             /\ ArticleFindById(i) ) =>
           /\ ret'.kind = "ok"
           /\ ret'.val # {}
           /\ \A e \in ret'.val : \E r \in articles :
                 /\ r.id = i /\ e.id = i
                 /\ e.author # None /\ e.author = r.author_id
                 /\ e.magazine # None /\ e.magazine = r.magazine_id
      ]_vars

\* C13: in test mode get_connection() never raises and never returns a
\* closed handle, also after the shared handle was closed: the handle it
\* returns is open with the schema created, so no call fails on the handle.
C13_ConnectionReestablished ==
    mode = "test" =>
        /\ Handle = "open"
        /\ ret.kind \notin {"ProgrammingError", "OperationalError"}

\* C13 witness: after an article save closed the shared handle and the store
\* was lost, Author.save() ran its statement on the handle get_connection()
\* returned
C13_Witness ==
    /\ mode = "test"
    /\ ever["articles"] # {} /\ seq["articles"] = 0
    /\ shared = "open"
    /\ ret.op = "Author.save" /\ ret.kind = "ok"

\* a non-empty string without leading or trailing whitespace
Trimmed(v) == IsStr(v) /\ v # << >> /\ Strip(v) = v

\* C14: the name and category of a constructed Magazine are always non-empty
\* trimmed strings, and a write that fails validation changes neither field.
C14_MagazineFieldsStayValid ==
    [][ \A o \in MObjs :
           /\ mobj'[o].live => (Trimmed(mobj'[o].name) /\ Trimmed(mobj'[o].category))
           /\ ( /\ ret'.op \in {"Magazine.name=", "Magazine.category="}
                /\ ret'.obj = o /\ ret'.kind # "ok" ) =>
              (mobj'[o].name = mobj[o].name /\ mobj'[o].category = mobj[o].category)
      ]_vars

\* C14 witness: a name write was rejected on a magazine whose name an earlier
\* write had set to the trimmed value "b"
C14_Witness ==
    /\ ret.op = "Magazine.name=" /\ ret.kind = "ValueError"
    /\ mobj[ret.obj].live
    /\ mobj[ret.obj].name = <<"b">>

\* C15: every rejected field value at construction or at a Magazine write is
\* reported with one and the same error kind; Author reports ValueError, so
\* that is the kind every rejection has to carry.
C15_OneValidationErrorKind ==
    ( /\ ret.op \in {"Author", "Magazine", "Magazine.name=", "Magazine.category=", "Article.title="}
      /\ ret.kind # "ok" ) => ret.kind = "ValueError"

\* C16: a constructor given a string that is non-empty after trimming stores
\* the string with leading and trailing whitespace removed.
C16_ConstructorsTrim ==
    [][ /\ \A o \in AObjs : (ret'.op = "Author" /\ ret'.obj = o /\ ret'.kind = "ok" /\ ~aobj[o].live) =>
              \E id \in IdArgs, name \in AuthorNames, email \in AuthorEmails :
                 AuthorInit(o, id, name, email) /\ aobj'[o].name = Strip(name)
        /\ \A o \in MObjs : (ret'.op = "Magazine" /\ ret'.obj = o /\ ret'.kind = "ok" /\ ~mobj[o].live) =>
              \E id \in IdArgs, name \in MagazineNames, cat \in MagazineCategories :
                 /\ MagazineInit(o, id, name, cat)
                 /\ mobj'[o].name = Strip(name) /\ mobj'[o].category = Strip(cat)
        /\ \A o \in RObjs : (ret'.op = "Article" /\ ret'.obj = o /\ ret'.kind = "ok" /\ ~robj[o].live) =>
              \E id \in IdArgs, t \in ArticleTitles, a \in AuthorRefs, m \in MagazineRefs :
                 ArticleInit(o, id, t, "c", a, m) /\ robj'[o].title = Strip(t)
      ]_vars

\* C17: Author.save() of an author with a valid name and absent id succeeds
\* and inserts a row whatever the email is.
C17_SaveAcceptsAnyEmail ==
    [][ \A o \in AObjs :
           ( /\ ret'.op = "Author.save" /\ ret'.obj = o /\ aobj[o].id = None
             /\ AuthorSave(o) ) =>
           /\ ret'.kind = "ok"
           /\ \E r \in authors' : r.id = aobj'[o].id /\ r.email = aobj[o].email
      ]_vars

\* C18: right after an author row or a magazine row is deleted, the row is
\* gone and no article row references the deleted id.
C18_DeleteCascades ==
    [][ \A i \in FindArgs :
           /\ ( /\ ret'.op = "DELETE authors" /\ ret'.arg = i /\ ret'.kind = "ok"
                /\ DeleteAuthor(i) ) =>
              (i \notin Ids(authors') /\ \A r \in articles' : r.author_id # i)
           /\ ( /\ ret'.op = "DELETE magazines" /\ ret'.arg = i /\ ret'.kind = "ok"
                /\ DeleteMagazine(i) ) =>
              (i \notin Ids(magazines') /\ \A r \in articles' : r.magazine_id # i)
      ]_vars

\* C18 witness: in test mode author 1 was deleted, the only row deleted since
\* the store was created; articles are missing and those of author 2 remain
C18_Witness ==
    /\ mode = "test"
    /\ ret.op = "DELETE authors" /\ ret.arg = 1 /\ ret.kind = "ok"
    /\ seq["authors"] = 2 /\ Ids(authors) = {2}
    /\ seq["magazines"] = 2 /\ Cardinality(magazines) = 2
    /\ articles # {}
    /\ seq["articles"] > Cardinality(articles)

\* C19: magazines() returns exactly the magazines with at least one article
\* of the author, each once; contributors() returns exactly the authors with
\* at least one article in the magazine, each once.
C19_JoinsAreDistinct ==
    /\ ret.op = "Author.magazines" =>
          LET expected == {m.id : m \in {x \in magazines :
                              \E r \in articles : r.author_id = aobj[ret.obj].id /\ r.magazine_id = x.id}}
          IN /\ ret.kind = "ok"
             /\ Range(ret.val) = expected
             /\ Len(ret.val) = Cardinality(expected)
    /\ ret.op = "Magazine.contributors" =>
          LET expected == {a.id : a \in {x \in authors :
                              \E r \in articles : r.magazine_id = mobj[ret.obj].id /\ r.author_id = x.id}}
          IN /\ ret.kind = "ok"
             /\ Range(ret.val) = expected
             /\ Len(ret.val) = Cardinality(expected)

\* C19 witness: the author wrote two or more articles in the one magazine
\* returned, and another magazine without articles of the author is stored
C19_Witness ==
    /\ ret.op = "Author.magazines"
    /\ Len(ret.val) = 1
    /\ Cardinality({r \in articles : r.author_id = aobj[ret.obj].id /\ r.magazine_id = ret.val[1]}) >= 2
    /\ Cardinality(magazines) = 2

\* C20: find_by_id(entity.id) called right after a save() that returned
\* without error returns the entity with the same id and field values, for
\* Author and Magazine, explicit ids included.
C20_SaveThenFind ==
    [][ /\ ( /\ ret.op = "Author.save" /\ ret.kind = "ok"
             /\ ret'.op = "Author.find_by_id" /\ ret'.arg = aobj[ret.obj].id ) =>
           ret'.val = {[id |-> aobj[ret.obj].id, name |-> aobj[ret.obj].name, email |-> aobj[ret.obj].email]}
        /\ ( /\ ret.op = "Magazine.save" /\ ret.kind = "ok"
             /\ ret'.op = "Magazine.find_by_id" /\ ret'.arg = mobj[ret.obj].id ) =>
           ret'.val = {[id |-> mobj[ret.obj].id, name |-> mobj[ret.obj].name, category |-> mobj[ret.obj].category]}
      ]_vars

\* C21: top_publisher() is deterministic under ties: a call that follows
\* another call on a store with the same rows returns the same magazine.
C21_TopPublisherDeterministic ==
    [][ ( /\ ret.op = "Magazine.top_publisher"
          /\ ret'.op = "Magazine.top_publisher"
          /\ articles' = articles /\ magazines' = magazines ) =>
        ret'.val = ret.val
      ]_vars

\* C22: every article row references an existing author row and an existing
\* magazine row, and an Article.save() whose author or magazine has no row
\* (never saved, or its row deleted) fails and writes nothing.
C22_ReferentialIntegrity ==
    [][ /\ \A r \in articles' : r.author_id \in Ids(authors') /\ r.magazine_id \in Ids(magazines')
        /\ \A o \in RObjs :
              ( /\ ret'.op = "Article.save" /\ ret'.obj = o
                /\ robj[o].author # None /\ robj[o].magazine # None
                /\ \/ aobj[robj[o].author].id \notin Ids(authors)
                   \/ mobj[robj[o].magazine].id \notin Ids(magazines)
                /\ ArticleSave(o) ) =>
              (ret'.kind # "ok" /\ articles' = articles)
      ]_vars

====
